---- MODULE Spec2Model ----
(***************************************************************************)
(* A model of the deploy command line tool (magixsno/deploy).              *)
(*                                                                         *)
(* Three parts of the program are modelled, each with its own              *)
(* specification over its own variables:                                   *)
(*   SpecTagger  tagger(template, tags)            src/cli.js 388-425      *)
(*   SpecCreds   loadCreds(argv, cb)               src/cli.js 427-462      *)
(*   Spec        one invocation of a stack command, for each of the three  *)
(*               entry points the sources hold:                            *)
(*                 "part_000"  main()         src/unnamed/part_000 42-175  *)
(*                 "cli"       main()         src/cli.js 70-181            *)
(*                 "legacy"    callback style src/cli.js 279-383           *)
(***************************************************************************)
EXTENDS Integers, Sequences, FiniteSets, TLC

VARIABLES
    \* ---- tagger ----
    template,   \* the template document handed to (and returned by) tagger
    tags,       \* dotdeploy.tags, the second argument of tagger
    original,   \* the template before the first call
    previous,   \* the template before the latest call
    calls,      \* number of tagger calls made so far
    \* ---- loadCreds ----
    credsFile,      \* ~/.deployrc.json: "absent", "invalid" (not JSON) or "valid"
    profiles,       \* the parsed file: profile name -> credential object
    argvProfile,    \* argv.profile ("" when the flag is not given)
    dotdeployProfile, \* dotdeploy.profile ("" when there is none)
    strictMode,     \* whether the script is run as strict code
    awsRejects,     \* whether new AWS.Credentials(creds) throws
    lcPc,           \* "idle", "reading" (fs.readFile pending) or "returned"
    cbErr,          \* the error loadCreds gave its callback
    cbCreds,        \* the credentials loadCreds gave its callback
    thrown,         \* the exception that escaped the readFile callback
    \* ---- one invocation of the command line ----
    entry,          \* the entry point: "part_000", "cli" or "legacy"
    command,        \* argv._[2]
    positional,     \* whether argv._[3] (the stack name) is given
    nameFlag,       \* whether --name is given
    modeKeys,       \* the subcommands the table `mode` holds
    github,         \* creds.github
    credsTags,      \* whether creds.tags is set
    uncommitted,    \* Git.uncommitted()
    pushed,         \* Git.pushed()
    pc,             \* the position of the invocation
    log,            \* the calls made to the collaborators, in order
    stderr,         \* the messages written with console.error, in order
    tmpFile,        \* the temporary template file: "none", "written", "deleted"
    exit,           \* "running", or how the process ended: "0", "1", "uncaught"
    opResult,       \* the stack operation: "none", "ok" or "failed"
    err,            \* the error caught by the catch block of the operation
    answers,        \* the answers given to the confirmation prompts
    artifactsResult \* the artifacts check: "none", "ok" or "failed"

tvars == <<template, tags, original, previous, calls>>

cvars == <<credsFile, profiles, argvProfile, dotdeployProfile, strictMode,
           awsRejects, lcPc, cbErr, cbCreds, thrown>>

inputs == <<entry, command, positional, nameFlag, modeKeys, github, credsTags,
            uncommitted, pushed>>

ovars == <<inputs, pc, log, stderr, tmpFile, exit, opResult, err, answers,
           artifactsResult>>

vars == <<tvars, cvars, ovars>>

(***************************************************************************)
(* JavaScript values.  An object is a function from its own property names *)
(* to values: a property that is absent is a name outside DOMAIN.          *)
(***************************************************************************)
EmptyObject == [p \in {} |-> "undefined"]

Has(obj, p) == p \in DOMAIN obj

JsUndefined == [type |-> "undefined"]
JsArray(s) == [type |-> "array", items |-> s]
JsString(s) == [type |-> "string", str |-> s]
JsObject(o) == [type |-> "object", obj |-> o]

\* Array.prototype.includes compares with SameValueZero: values of different
\* types are never the same value.
SameValueZero(a, b) == a.type = b.type /\ a = b

Includes(arr, x) == \E i \in DOMAIN arr : SameValueZero(arr[i], x)

\* A faulty variant of NoTags: only !tags, without the test of the length.
NoTags_OnlyUndefined(t) == t.type = "undefined"

\* !tags || !tags.length
NoTags(t) == t.type = "undefined" \/ Len(t.items) = 0

(***************************************************************************)
(* Bounds of the tagger model.                                             *)
(***************************************************************************)
MaxResources == 2
MaxTags == 2
MaxCalls == 2

TagKeys == {"k1", "k2"}
OldValues == {"v0"}
NewValues == {"v0", "v1"}

\* data/cf_schema.json, as tagger reads it: ResourceTypes[type].Properties.Tags
schema ==
    [ResourceTypes |->
        [t \in {"AWS::S3::Bucket", "AWS::IAM::Policy", "AWS::CloudFormation::WaitConditionHandle"} |->
            CASE t = "AWS::S3::Bucket" -> [Properties |-> [Tags |-> "List of Tag"]]
              [] t = "AWS::IAM::Policy" -> [Properties |-> [PolicyName |-> "String"]]
              [] OTHER -> EmptyObject]]

ResourceTypeNames == DOMAIN schema.ResourceTypes \cup {"Custom::Thing"}

\* The condition of `continue` at cli.js 393-398, negated.
TagCapable(resource) ==
    /\ Has(resource, "Type")
    /\ Has(schema.ResourceTypes, resource.Type)
    /\ Has(schema.ResourceTypes[resource.Type], "Properties")
    /\ Has(schema.ResourceTypes[resource.Type].Properties, "Tags")

DistinctKeys(list) ==
    \A i, j \in DOMAIN list : list[i].Key = list[j].Key => i = j

TagLists(values) ==
    {s \in UNION {[1..n -> [Key : TagKeys, Value : values]] : n \in 0..MaxTags} :
        DistinctKeys(s)}

PropertyBags == {EmptyObject} \cup [Tags : TagLists(OldValues)]

ResourceSet ==
    {EmptyObject} \cup [Type : ResourceTypeNames]
        \cup [Type : ResourceTypeNames, Properties : PropertyBags]

Templates ==
    {EmptyObject} \cup
    [Resources : UNION {[1..n -> ResourceSet] : n \in 0..MaxResources}]

TagArguments == {JsUndefined} \cup {JsArray(s) : s \in TagLists(NewValues)}

(***************************************************************************)
(* tagger, cli.js 388-425.                                                 *)
(***************************************************************************)
\* cli.js 412-417: the first tag with the key gets the value.
OverwriteFirst(list, oTag) ==
    IF \E i \in DOMAIN list : list[i].Key = oTag.Key
    THEN LET first == CHOOSE i \in DOMAIN list :
                        /\ list[i].Key = oTag.Key
                        /\ \A j \in DOMAIN list : list[j].Key = oTag.Key => i <= j
         IN [list EXCEPT ![first].Value = oTag.Value]
    ELSE list

\* cli.js 410-421: the loop over the input tags.  tag_names is computed once,
\* before the loop, and holds the keys (strings); the loop looks the tag
\* itself (an object) up in it.
RECURSIVE TagLoop(_, _, _)
TagLoop(list, tag_names, rest) ==
    IF rest = <<>> THEN list
    ELSE LET oTag == Head(rest) IN
         TagLoop(IF Includes(tag_names, JsObject(oTag))
                 THEN OverwriteFirst(list, oTag)
                 ELSE Append(list, oTag),
                 tag_names, Tail(rest))

\* cli.js 393-421: the body of the loop over the resources.
TagResource(resource, t) ==
    IF ~TagCapable(resource) THEN resource
    ELSE LET props == IF Has(resource, "Properties") THEN resource.Properties ELSE EmptyObject
             list == IF Has(props, "Tags") THEN props.Tags ELSE <<>>
             tag_names == [i \in DOMAIN list |-> JsString(list[i].Key)]
             merged == TagLoop(list, tag_names, t.items)
         IN [p \in DOMAIN resource \cup {"Properties"} |->
                IF p = "Properties"
                THEN [q \in DOMAIN props \cup {"Tags"} |->
                        IF q = "Tags" THEN merged ELSE props[q]]
                ELSE resource[p]]

tagger(tmpl, t) ==
    IF ~Has(tmpl, "Resources") THEN tmpl
    ELSE IF NoTags(t) THEN tmpl
    ELSE [p \in DOMAIN tmpl |->
            IF p = "Resources"
            THEN [n \in DOMAIN tmpl.Resources |-> TagResource(tmpl.Resources[n], t)]
            ELSE tmpl[p]]

\* No error caught.
NoError == [execution |-> "undefined", status |-> "undefined", caught |-> FALSE]

\* The variables of the invocation, at rest.
MainIdle ==
    /\ entry = "legacy"
    /\ command = "help"
    /\ positional = FALSE
    /\ nameFlag = FALSE
    /\ modeKeys = {}
    /\ github = FALSE
    /\ credsTags = FALSE
    /\ uncommitted = FALSE
    /\ pushed = TRUE
    /\ pc = "idle"
    /\ log = <<>>
    /\ stderr = <<>>
    /\ tmpFile = "none"
    /\ exit = "running"
    /\ opResult = "none"
    /\ err = NoError
    /\ answers = <<>>
    /\ artifactsResult = "none"

\* The variables of loadCreds, at rest.
CredsIdle ==
    /\ credsFile = "absent"
    /\ profiles = EmptyObject
    /\ argvProfile = ""
    /\ dotdeployProfile = ""
    /\ strictMode = FALSE
    /\ awsRejects = FALSE
    /\ lcPc = "idle"
    /\ cbErr = JsUndefined
    /\ cbCreds = JsUndefined
    /\ thrown = "none"

TaggerInit ==
    /\ CredsIdle
    /\ MainIdle
    /\ template \in Templates
    /\ tags \in TagArguments
    /\ original = template
    /\ previous = template
    /\ calls = 0

\* cli.js 332: template = tagger(template, dotdeploy.tags)
Tag ==
    /\ calls < MaxCalls
    /\ previous' = template
    /\ template' = tagger(template, tags)
    /\ calls' = calls + 1
    /\ UNCHANGED <<tags, original>>
    /\ UNCHANGED <<cvars, ovars>>

SpecTagger == TaggerInit /\ [][Tag]_vars

(***************************************************************************)
(* Claims about tagger.                                                    *)
(***************************************************************************)
\* The tags of a resource ([] when it has none).
TagsOf(resource) ==
    IF Has(resource, "Properties") /\ Has(resource.Properties, "Tags")
    THEN resource.Properties.Tags
    ELSE <<>>

\* What the merge of the input tags `input` into the tag list `list` is to
\* give: a tag whose key is in the input takes the input's value where it
\* stands, the input tags with a new key follow in input order.
ExpectedMerge(list, input) ==
    LET ValueOf(k) == input[CHOOSE j \in DOMAIN input : input[j].Key = k].Value
        IsNew(tag) == \A i \in DOMAIN list : list[i].Key # tag.Key
    IN [i \in DOMAIN list |->
            IF \E j \in DOMAIN input : input[j].Key = list[i].Key
            THEN [Key |-> list[i].Key, Value |-> ValueOf(list[i].Key)]
            ELSE list[i]]
       \o SelectSeq(input, IsNew)

\* C1: the tag merge is idempotent: tagger(tagger(T, S), S) = tagger(T, S).
\* previous is the template the second call was given, tagger(T, S).
C1_TaggerIdempotent ==
    calls = 2 => template = previous

\* C2: after tagger(T, S) the keys of the tag list of every tag-capable
\* resource are pairwise distinct (the keys of the resource's own tags and
\* those of S being distinct, as TaggerInit draws them).
C2_MergedKeysUnique ==
    (calls = 1 /\ Has(template, "Resources")) =>
        \A n \in DOMAIN template.Resources :
            TagCapable(template.Resources[n]) =>
                DistinctKeys(TagsOf(template.Resources[n]))

\* C3: on a tag-capable resource each input tag overwrites the value of the
\* tag with its key where that tag stands, and is appended otherwise: the
\* pre-existing tags keep their order and the new ones follow in input order.
C3_OverwriteInPlaceElseAppend ==
    (calls = 1 /\ Has(original, "Resources") /\ ~NoTags(tags)) =>
        \A n \in DOMAIN original.Resources :
            TagCapable(original.Resources[n]) =>
                TagsOf(template.Resources[n])
                    = ExpectedMerge(TagsOf(original.Resources[n]), tags.items)

(***************************************************************************)
(* loadCreds, cli.js 427-462.                                              *)
(***************************************************************************)
MaxProfiles == 2

ProfileNames == {"a", "b", "c"}
Regions == {"us-east-1", "eu-west-1"}

\* One profile of ~/.deployrc.json.
CredentialObjects ==
    [region : Regions, accountId : {"123456789012"},
     accessKeyId : {"AKIAEXAMPLE"}, secretAccessKey : {"secret"}]

CredentialFiles ==
    UNION {[P -> CredentialObjects] :
            P \in {Q \in SUBSET ProfileNames : Cardinality(Q) <= MaxProfiles}}

JsNull == [type |-> "null"]

\* new Error(message); a template literal is the tuple of its parts.
JsError(message) == [type |-> "error", message |-> message]

\* cli.js 279 and 287: the repository name and HEAD's sha.
repo == "deploy"
sha == "0123abc"

\* obj with property p set to v.
WithProperty(obj, p, v) ==
    [q \in DOMAIN obj \cup {p} |-> IF q = p THEN v ELSE obj[q]]

\* target.p = v.  On undefined it throws; on a primitive string it throws in
\* strict code and is silently dropped otherwise.
SetProperty(target, p, v, strict) ==
    CASE target.type = "object" ->
            [value |-> JsObject(WithProperty(target.obj, p, v)), thrown |-> "none"]
      [] target.type = "string" ->
            [value |-> target, thrown |-> IF strict THEN "TypeError" ELSE "none"]
      [] OTHER ->
            [value |-> target, thrown |-> "TypeError"]

\* Object.keys(creds)[0]
FirstKey(file) ==
    IF DOMAIN file = {} THEN JsUndefined
    ELSE JsString(CHOOSE k \in DOMAIN file : \A other \in DOMAIN file : k = other)

\* What the callback of loadCreds is given, or what escapes it.
Callback(e, c) == [err |-> e, creds |-> c, thrown |-> "none"]
Throw(exception) == [err |-> JsUndefined, creds |-> JsUndefined, thrown |-> exception]

\* cli.js 433-446: the choice of the profile.  The result is the value of the
\* variable creds (with what the assignment of creds.profile threw), or the
\* error handed to the callback.
SelectProfile(file, flag, dflt, strict) ==
    IF flag # "" THEN
        IF ~Has(file, flag)
        THEN [failed |-> TRUE, error |-> JsError(<<flag, " profile not found in creds">>)]
        ELSE [failed |-> FALSE, set |-> SetProperty(JsObject(file[flag]), "profile", flag, strict)]
    ELSE IF dflt # "" THEN
        IF ~Has(file, dflt)
        THEN [failed |-> TRUE, error |-> JsError(<<flag, " profile not found in creds">>)]
        ELSE [failed |-> FALSE, set |-> SetProperty(JsObject(file[dflt]), "profile", dflt, strict)]
    ELSE IF Cardinality(DOMAIN file) > 1 THEN
        [failed |-> TRUE,
         error |-> JsError(<<"Multiple deploy profiles found. Deploy with --profile or set a .deploy file">>)]
    ELSE
        [failed |-> FALSE, set |-> SetProperty(FirstKey(file), "profile", "default", strict)]

\* cli.js 448-460: the credentials are handed to the SDK, then completed.
Finish(creds, dflt, strict, rejects) ==
    IF rejects THEN Callback(JsError(<<"creds not set: run deploy init">>), JsUndefined)
    ELSE LET r1 == SetProperty(creds, "repo", repo, strict)
             r2 == SetProperty(r1.value, "sha", sha, strict)
             r3 == SetProperty(r2.value, "dotdeploy", [profile |-> dflt], strict)
         IN IF r1.thrown # "none" THEN Throw(r1.thrown)
            ELSE IF r2.thrown # "none" THEN Throw(r2.thrown)
            ELSE IF r3.thrown # "none" THEN Throw(r3.thrown)
            ELSE Callback(JsNull, r3.value)

\* cli.js 428-461: the callback of fs.readFile.
loadCreds(fileState, file, flag, dflt, strict, rejects) ==
    IF fileState = "absent"
    THEN Callback(JsError(<<"No creds found - run \"deploy init\"">>), JsUndefined)
    ELSE IF fileState = "invalid" THEN Throw("SyntaxError")
    ELSE LET sel == SelectProfile(file, flag, dflt, strict) IN
         IF sel.failed THEN Callback(sel.error, JsUndefined)
         ELSE IF sel.set.thrown # "none" THEN Throw(sel.set.thrown)
         ELSE Finish(sel.set.value, dflt, strict, rejects)

\* The variables of tagger, at rest.
TaggerIdle ==
    /\ template = EmptyObject
    /\ tags = JsUndefined
    /\ original = EmptyObject
    /\ previous = EmptyObject
    /\ calls = 0

CredsInit ==
    /\ TaggerIdle
    /\ MainIdle
    /\ credsFile \in {"absent", "invalid", "valid"}
    /\ profiles \in IF credsFile = "valid" THEN CredentialFiles ELSE {EmptyObject}
    /\ argvProfile \in {"", "a", "z"}
    /\ dotdeployProfile \in {"", "b", "z"}
    /\ strictMode \in BOOLEAN
    /\ awsRejects \in BOOLEAN
    /\ lcPc = "idle"
    /\ cbErr = JsUndefined
    /\ cbCreds = JsUndefined
    /\ thrown = "none"

\* cli.js 305, 374 and 428: loadCreds is called and asks for the file.
ReadFile ==
    /\ lcPc = "idle"
    /\ lcPc' = "reading"
    /\ UNCHANGED <<credsFile, profiles, argvProfile, dotdeployProfile,
                   strictMode, awsRejects, cbErr, cbCreds, thrown>>
    /\ UNCHANGED <<tvars, ovars>>

\* cli.js 428-461: the file has been read (or not).
ReadFileDone ==
    /\ lcPc = "reading"
    /\ LET r == loadCreds(credsFile, profiles, argvProfile, dotdeployProfile,
                          strictMode, awsRejects)
       IN /\ cbErr' = r.err
          /\ cbCreds' = r.creds
          /\ thrown' = r.thrown
    /\ lcPc' = "returned"
    /\ UNCHANGED <<credsFile, profiles, argvProfile, dotdeployProfile,
                   strictMode, awsRejects>>
    /\ UNCHANGED <<tvars, ovars>>

CredsNext == ReadFile \/ ReadFileDone

SpecCreds == CredsInit /\ [][CredsNext]_vars

(***************************************************************************)
(* Claims about loadCreds.                                                 *)
(***************************************************************************)
NoDisambiguation ==
    /\ lcPc = "returned"
    /\ credsFile = "valid"
    /\ argvProfile = ""
    /\ dotdeployProfile = ""

\* C4: with no --profile flag and no project default, a credentials file of
\* zero profiles, or of two or more, makes resolution fail with the
\* ambiguous-profile error, and no credential object is returned.
C4_AmbiguousUnlessOneProfile ==
    (NoDisambiguation /\ Cardinality(DOMAIN profiles) # 1) =>
        /\ thrown = "none"
        /\ cbErr = JsError(<<"Multiple deploy profiles found. Deploy with --profile or set a .deploy file">>)
        /\ cbCreds = JsUndefined

\* C5: with no --profile flag and no project default, a credentials file of
\* exactly one profile makes resolution succeed: the callback gets that
\* profile's credential object, labelled "default".
C5_SingleProfileIsDefault ==
    (NoDisambiguation /\ Cardinality(DOMAIN profiles) = 1 /\ ~awsRejects) =>
        LET only == CHOOSE k \in DOMAIN profiles : TRUE IN
        /\ thrown = "none"
        /\ cbErr = JsNull
        /\ cbCreds.type = "object"
        /\ cbCreds.obj.profile = "default"
        /\ \A f \in DOMAIN profiles[only] : cbCreds.obj[f] = profiles[only][f]

(***************************************************************************)
(* One invocation of a subcommand.                                         *)
(*   "part_000"  async main(), src/unnamed/part_000 42-175                 *)
(*   "cli"       async main(), src/cli.js 70-181                           *)
(*   "legacy"    the callback style script, src/cli.js 279-383             *)
(* The invocation is past the --help and usage tests: a command is given   *)
(* and argv.help is not set.                                               *)
(***************************************************************************)
EntryPoints == {"part_000", "cli", "legacy"}

Commands == {"create", "update", "delete", "cancel", "list", "init", "frobnicate"}

\* part_000 43, cli.js 71, cli.js 301: the commands of the stack branch.
StackCommands(e) ==
    IF e = "part_000" THEN {"create", "update", "delete", "cancel"}
    ELSE {"create", "update", "delete"}

\* cli.js 200-205: the table of the legacy script.
LegacyMode == {"env", "list", "init", "info"}

\* lib/commands.js (part_000 14, cli.js 11) is not among the sources: the
\* table holds the plain subcommands, and may hold the stack commands.
ModeTables ==
    {LegacyMode \cup {"json"},
     LegacyMode \cup {"json", "create", "update", "delete", "cancel"}}

\* The errors a stack operation fails with, as the catch block reads them.
OperationErrors ==
    [execution : {"UNAVAILABLE", "undefined"}, status : {"FAILED", "undefined"},
     caught : {TRUE}]

\* An error thrown by another collaborator (it has no execution or status).
OtherError == [execution |-> "undefined", status |-> "undefined", caught |-> TRUE]

\* The answers typed at a confirmation prompt.
Answers == {"y", "Y", "n", ""}

\* String.prototype.toLowerCase, on the answers.
ToLowerCase(str) == IF str = "Y" THEN "y" ELSE str

\* A faulty variant of Declines: only an explicit 'n' declines, so the default
\* (empty) answer goes on.
Declines_OnlyN(answer) == ToLowerCase(answer) = "n"

\* part_000 67 and 78: res.<name>.toLowerCase() !== 'y'
Declines(answer) == ToLowerCase(answer) # "y"

\* The messages, a template literal being the tuple of its parts.
StackNameRequired(c) == <<"Stack name required: run deploy ", c, " --help">>
SubcommandNotFound == <<"Subcommand not found!">>
ArtifactsCheckFailed == <<"Artifacts Check Failed: ", "err.message">>
CommandFailed == <<"Command failed: ", "err.message">>
Failed(c) ==
    CASE c = "create" -> <<"Create failed: ", "err.message">>
      [] c = "update" -> <<"Update failed: ", "err.message">>
      [] c = "delete" -> <<"Delete failed: ", "err.message">>
      [] OTHER -> <<"Cancel failed: ", "err.message">>

\* gh.deployment(name), gh.deployment(name, true), gh.deployment(name, false)
Deployment(status) ==
    CASE status = "pending" -> "gh.deployment(pending)"
      [] status = "success" -> "gh.deployment(success)"
      [] OTHER -> "gh.deployment(failure)"

\* A faulty variant of unlinkSync: the file is left in place.
unlinkSync_Noop(file) == file

\* fs.unlinkSync(cf_path)
unlinkSync(file) == "deleted"

\* fs.writeFileSync(cf_path, ...)
writeFileSync(file) == "written"

\* pc, log, stderr and exit after a step.
Goto(p, l, e, x) ==
    /\ pc' = p
    /\ log' = l
    /\ stderr' = e
    /\ exit' = x

MainInit ==
    /\ TaggerIdle
    /\ CredsIdle
    /\ entry \in EntryPoints
    /\ command \in Commands
    /\ positional \in BOOLEAN
    /\ nameFlag \in BOOLEAN
    /\ modeKeys \in IF entry = "legacy" THEN {LegacyMode} ELSE ModeTables
    /\ github \in IF entry = "legacy" THEN {FALSE} ELSE BOOLEAN
    /\ credsTags \in IF entry = "legacy" THEN {FALSE} ELSE BOOLEAN
    /\ uncommitted \in IF entry = "part_000" THEN BOOLEAN ELSE {FALSE}
    /\ pushed \in IF entry = "part_000" THEN BOOLEAN ELSE {TRUE}
    /\ pc = "start"
    /\ log = <<>>
    /\ stderr = <<>>
    /\ tmpFile = "none"
    /\ exit = "running"
    /\ opResult = "none"
    /\ err = NoError
    /\ answers = <<>>
    /\ artifactsResult = "none"

\* part_000 58 and 59, cli.js 86: what follows the bucket step.
AfterBucket(e, c) ==
    IF c \in {"create", "update"}
    THEN IF e = "part_000" THEN "uncommitted" ELSE "artifacts"
    ELSE "render"

\* A faulty variant of ArtifactsOutcome: the failure is reported, and the
\* invocation goes on (the return is missing).
ArtifactsOutcome_NoReturn(ok, e, next) ==
    [pc |-> next, stderr |-> IF ok THEN e ELSE Append(e, ArtifactsCheckFailed),
     exit |-> "running"]

\* part_000 81-85, cli.js 88-91, cli.js 337-338 and 350-351: the artifacts
\* check has answered; a failure is reported and the invocation returns.
ArtifactsOutcome(ok, e, next) ==
    IF ok THEN [pc |-> next, stderr |-> e, exit |-> "running"]
    ELSE [pc |-> "done", stderr |-> Append(e, ArtifactsCheckFailed), exit |-> "0"]

\* part_000 117 and 152, cli.js 123 and 158: the notification that follows a
\* stack operation that succeeded.
SuccessNotice(c, gh) ==
    IF c = "create" /\ gh THEN <<"success">>
    ELSE IF c = "cancel" /\ gh THEN <<"failure">>
    ELSE <<>>

\* A faulty variant of FailureNotice: the update that fails with an
\* unavailable, failed execution is notified as a failure, like any other.
FailureNotice_NoSpecialCase(c, e, gh) ==
    IF c \in {"create", "update"} /\ gh THEN <<"failure">> ELSE <<>>

\* part_000 120 and 134-138, cli.js 126 and 140-144: the notification sent
\* from the catch block of a stack operation.
FailureNotice(c, e, gh) ==
    IF c = "create" THEN (IF gh THEN <<"failure">> ELSE <<>>)
    ELSE IF c = "update" THEN
        IF e.caught /\ gh /\ e.execution = "UNAVAILABLE" /\ e.status = "FAILED"
        THEN <<"success">>
        ELSE IF gh THEN <<"failure">> ELSE <<>>
    ELSE <<>>

\* The call a stack command makes: cf.create, cf.update, cf.delete, cf.cancel.
Operation(c) ==
    CASE c = "create" -> "cf.create"
      [] c = "update" -> "cf.update"
      [] c = "delete" -> "cf.delete"
      [] OTHER -> "cf.cancel"

\* The calls gh.deployment(name, status) for the statuses of a notice.
Notices(notice) == [i \in DOMAIN notice |-> Deployment(notice[i])]

Async == entry \in {"part_000", "cli"}

\* part_000 42-52 and 157-174, cli.js 70-80 and 163-180.
Main ==
    /\ Async
    /\ pc = "start"
    /\ IF command \in StackCommands(entry)
       THEN IF ~positional /\ ~nameFlag
            THEN Goto("done", log, Append(stderr, StackNameRequired(command)), "1")
            ELSE \E ok \in BOOLEAN :
                    IF ok
                    THEN Goto("bucket", Append(log, "Credentials"), stderr, exit)
                    ELSE Goto("done", Append(log, "Credentials"), stderr, "uncaught")
       ELSE IF command \in modeKeys
       THEN IF command = "init"
            THEN Goto("done", Append(log, "mode.main"), stderr, "0")
            ELSE \E outcome \in {"ok", "Credentials throws", "main throws"} :
                    CASE outcome = "ok" ->
                            Goto("done", log \o <<"Credentials", "mode.main">>, stderr, "0")
                      [] outcome = "Credentials throws" ->
                            Goto("done", Append(log, "Credentials"),
                                 Append(stderr, CommandFailed), "0")
                      [] OTHER ->
                            Goto("done", log \o <<"Credentials", "mode.main">>,
                                 Append(stderr, CommandFailed), "0")
       ELSE Goto("done", log, Append(stderr, SubcommandNotFound), "1")
    /\ UNCHANGED <<tvars, cvars, inputs, tmpFile, opResult, err, answers, artifactsResult>>

\* part_000 55, cli.js 83: await mode.init.bucket(creds)
Bucket ==
    /\ Async
    /\ pc = "bucket"
    /\ \E ok \in BOOLEAN :
        IF ok
        THEN Goto(AfterBucket(entry, command), Append(log, "init.bucket"), stderr, exit)
        ELSE Goto("done", Append(log, "init.bucket"), stderr, "uncaught")
    /\ UNCHANGED <<tvars, cvars, inputs, tmpFile, opResult, err, answers, artifactsResult>>

\* part_000 59-68
Uncommitted ==
    /\ entry = "part_000"
    /\ pc = "uncommitted"
    /\ IF uncommitted
       THEN \E a \in Answers :
                /\ answers' = Append(answers, a)
                /\ IF Declines(a)
                   THEN Goto("done", log \o <<"Git.uncommitted", "inquirer.prompt">>, stderr, "0")
                   ELSE Goto("unpushed", log \o <<"Git.uncommitted", "inquirer.prompt">>, stderr, exit)
       ELSE /\ answers' = answers
            /\ Goto("unpushed", Append(log, "Git.uncommitted"), stderr, exit)
    /\ UNCHANGED <<tvars, cvars, inputs, tmpFile, opResult, err, artifactsResult>>

\* part_000 70-79
Unpushed ==
    /\ entry = "part_000"
    /\ pc = "unpushed"
    /\ IF ~pushed
       THEN \E a \in Answers :
                /\ answers' = Append(answers, a)
                /\ IF Declines(a)
                   THEN Goto("done", log \o <<"Git.pushed", "inquirer.prompt">>, stderr, "0")
                   ELSE Goto("artifacts", log \o <<"Git.pushed", "inquirer.prompt">>, stderr, exit)
       ELSE /\ answers' = answers
            /\ Goto("artifacts", Append(log, "Git.pushed"), stderr, exit)
    /\ UNCHANGED <<tvars, cvars, inputs, tmpFile, opResult, err, artifactsResult>>

\* part_000 81-85, cli.js 87-91
Artifacts ==
    /\ Async
    /\ pc = "artifacts"
    /\ \E ok \in BOOLEAN :
        LET o == ArtifactsOutcome(ok, stderr, "deployment")
        IN /\ artifactsResult' = IF ok THEN "ok" ELSE "failed"
           /\ Goto(o.pc, Append(log, "artifacts"), o.stderr,
                   IF o.exit = "running" THEN exit ELSE o.exit)
    /\ UNCHANGED <<tvars, cvars, inputs, tmpFile, opResult, err, answers>>

\* part_000 87, cli.js 93: if (creds.github) await gh.deployment(argv._[3])
DeploymentPending ==
    /\ Async
    /\ pc = "deployment"
    /\ IF github
       THEN \E ok \in BOOLEAN :
                IF ok
                THEN Goto("tags", Append(log, Deployment("pending")), stderr, exit)
                ELSE Goto("done", Append(log, Deployment("pending")), stderr, "uncaught")
       ELSE Goto("tags", log, stderr, exit)
    /\ UNCHANGED <<tvars, cvars, inputs, tmpFile, opResult, err, answers, artifactsResult>>

\* part_000 89-91, cli.js 95-97: tags = await Tags.request(creds.tags)
TagsRequest ==
    /\ Async
    /\ pc = "tags"
    /\ IF credsTags
       THEN \E ok \in BOOLEAN :
                IF ok
                THEN Goto("render", Append(log, "Tags.request"), stderr, exit)
                ELSE Goto("done", Append(log, "Tags.request"), stderr, "uncaught")
       ELSE Goto("render", log, stderr, exit)
    /\ UNCHANGED <<tvars, cvars, inputs, tmpFile, opResult, err, answers, artifactsResult>>

\* part_000 94-105, cli.js 100-111: the buckets are named, the template is
\* read and written to the temporary file.
Render ==
    /\ Async
    /\ pc = "render"
    /\ \E ok \in BOOLEAN :
        IF ok
        THEN /\ Goto("dispatch", log \o <<"creds.accountId", "creds.accountId", "Template.read">>,
                     stderr, exit)
             /\ tmpFile' = writeFileSync(tmpFile)
        ELSE /\ Goto("done", log \o <<"creds.accountId", "creds.accountId", "Template.read">>,
                     stderr, "uncaught")
             /\ tmpFile' = tmpFile
    /\ UNCHANGED <<tvars, cvars, inputs, opResult, err, answers, artifactsResult>>

\* part_000 109, 124, 142, 149; cli.js 115, 130, 148, 155: the stack
\* operation is called and returns or throws.
Dispatch ==
    /\ Async
    /\ pc = "dispatch"
    /\ \E result \in {NoError} \cup OperationErrors :
        /\ err' = result
        /\ opResult' = IF result.caught THEN "failed" ELSE "ok"
        /\ Goto(IF result.caught THEN "catch" ELSE "succeeded",
                Append(log, Operation(command)), stderr, exit)
    /\ UNCHANGED <<tvars, cvars, inputs, tmpFile, answers, artifactsResult>>

\* part_000 115-117, 130, 143, 150-152; cli.js 121-123, 136, 149, 156-158:
\* the rest of the try block.  A notification that throws is caught.
Succeeded ==
    /\ Async
    /\ pc = "succeeded"
    /\ tmpFile' = unlinkSync(tmpFile)
    /\ LET notice == SuccessNotice(command, github) IN
       IF notice = <<>>
       THEN /\ Goto("done", log, stderr, "0")
            /\ err' = err
       ELSE \E ok \in BOOLEAN :
                IF ok
                THEN /\ Goto("done", log \o Notices(notice), stderr, "0")
                     /\ err' = err
                ELSE /\ Goto("catch", log \o Notices(notice), stderr, exit)
                     /\ err' = OtherError
    /\ UNCHANGED <<tvars, cvars, inputs, opResult, answers, artifactsResult>>

\* part_000 118-121, 131-139, 144-146, 153-155; cli.js 124-127, 137-145,
\* 150-152, 159-161: the catch block.
Catch ==
    /\ Async
    /\ pc = "catch"
    /\ LET notice == FailureNotice(command, err, github) IN
       IF notice = <<>>
       THEN Goto("done", log, Append(stderr, Failed(command)), "0")
       ELSE \E ok \in BOOLEAN :
                Goto("done", log \o Notices(notice), Append(stderr, Failed(command)),
                     IF ok THEN "0" ELSE "uncaught")
    /\ UNCHANGED <<tvars, cvars, inputs, tmpFile, opResult, err, answers, artifactsResult>>

CouldNotFindTemplate == <<"Could not find CF Template in cloudformation/", repo, ".template.js(on)">>

\* cli.js 279-305 and 370-383: the script finds the sha and reads .deploy,
\* then tests the command.  A missing stack name is reported and the script
\* returns.
LegacyStart ==
    /\ entry = "legacy"
    /\ pc = "start"
    /\ \E startup \in {"ok", "no git", "invalid .deploy"} :
        IF startup # "ok"
        THEN Goto("done", Append(log, "git rev-parse"), stderr, "uncaught")
        ELSE IF command \in StackCommands(entry)
        THEN IF ~positional
             THEN Goto("done", Append(log, "git rev-parse"),
                       Append(stderr, StackNameRequired(command)), "0")
             ELSE Goto("loadCreds", log \o <<"git rev-parse", "loadCreds">>, stderr, exit)
        ELSE IF command \in modeKeys
        THEN IF command = "init"
             THEN Goto("done", log \o <<"git rev-parse", "mode.main">>, stderr, "0")
             ELSE Goto("loadCreds", log \o <<"git rev-parse", "loadCreds">>, stderr, exit)
        ELSE Goto("done", Append(log, "git rev-parse"),
                  Append(stderr, SubcommandNotFound), "1")
    /\ UNCHANGED <<tvars, cvars, inputs, tmpFile, opResult, err, answers, artifactsResult>>

\* cli.js 305-329 and 374-378: the callback given to loadCreds.
LegacyCreds ==
    /\ entry = "legacy"
    /\ pc = "loadCreds"
    /\ \E outcome \in {"creds", "error", "no template"} :
        CASE outcome = "error" -> Goto("done", log, stderr, "uncaught")
          [] outcome = "creds" ->
                IF command \in StackCommands(entry)
                THEN Goto("build", log \o <<"cf.commands", "friend.build">>, stderr, exit)
                ELSE Goto("done", Append(log, "mode.main"), stderr, "0")
          [] OTHER ->
                IF command \in StackCommands(entry)
                THEN Goto("done", Append(log, "cf.commands"),
                          Append(stderr, CouldNotFindTemplate), "0")
                ELSE Goto("done", Append(log, "mode.main"), stderr, "0")
    /\ UNCHANGED <<tvars, cvars, inputs, tmpFile, opResult, err, answers, artifactsResult>>

\* cli.js 329-367: the template is built, tagged and written, then the
\* artifacts check (create, update) or the deletion is started.
LegacyBuild ==
    /\ entry = "legacy"
    /\ pc = "build"
    /\ \E ok \in BOOLEAN :
        IF ok
        THEN /\ tmpFile' = writeFileSync(tmpFile)
             /\ Goto(IF command = "delete" THEN "dispatch" ELSE "artifacts",
                     Append(log, "tagger"), stderr, exit)
        ELSE /\ tmpFile' = tmpFile
             /\ Goto("done", log, stderr, "uncaught")
    /\ UNCHANGED <<tvars, cvars, inputs, opResult, err, answers, artifactsResult>>

\* cli.js 337-338 and 350-351: the callback of the artifacts check.
LegacyArtifacts ==
    /\ entry = "legacy"
    /\ pc = "artifacts"
    /\ \E ok \in BOOLEAN :
        LET o == ArtifactsOutcome(ok, stderr, "dispatch")
        IN /\ artifactsResult' = IF ok THEN "ok" ELSE "failed"
           /\ Goto(o.pc, Append(log, "artifacts"), o.stderr,
                   IF o.exit = "running" THEN exit ELSE o.exit)
    /\ UNCHANGED <<tvars, cvars, inputs, tmpFile, opResult, err, answers>>

\* cli.js 340-347, 353-360, 363-366: the stack operation and its callback.
LegacyDispatch ==
    /\ entry = "legacy"
    /\ pc = "dispatch"
    /\ \E result \in {NoError} \cup OperationErrors :
        /\ err' = result
        /\ opResult' = IF result.caught THEN "failed" ELSE "ok"
        /\ tmpFile' = IF result.caught THEN tmpFile ELSE unlinkSync(tmpFile)
        /\ Goto("done", Append(log, Operation(command)),
                IF result.caught THEN Append(stderr, Failed(command)) ELSE stderr, "0")
    /\ UNCHANGED <<tvars, cvars, inputs, answers, artifactsResult>>

Next ==
    \/ Main
    \/ Bucket
    \/ Uncommitted
    \/ Unpushed
    \/ Artifacts
    \/ DeploymentPending
    \/ TagsRequest
    \/ Render
    \/ Dispatch
    \/ Succeeded
    \/ Catch
    \/ LegacyStart
    \/ LegacyCreds
    \/ LegacyBuild
    \/ LegacyArtifacts
    \/ LegacyDispatch

Spec == MainInit /\ [][Next]_vars

(***************************************************************************)
(* Claims about the invocation of a stack command.                         *)
(***************************************************************************)
\* The calls of l that c holds of, in order.
Only(l, Test(_)) == SelectSeq(l, Test)

IsStackCall(c) == c \in {"cf.create", "cf.update", "cf.delete", "cf.cancel"}
IsNotification(c) == c \in {Deployment("pending"), Deployment("success"), Deployment("failure")}
IsFinalNotification(c) == c \in {Deployment("success"), Deployment("failure")}
IsCredentials(c) == c \in {"Credentials", "loadCreds"}

\* The calls that reach the cloud.
IsCloudCall(c) ==
    \/ c \in {"init.bucket", "artifacts", "Tags.request", "creds.accountId"}
    \/ IsStackCall(c)
    \/ IsNotification(c)

IsGuardedCall(c) == IsCredentials(c) \/ IsCloudCall(c)

\* C6: create, update, delete and cancel without a stack name (no positional
\* argument, no --name) print 'Stack name required' and exit with code 1,
\* with no credentials resolved and no collaborator called.
C6_MissingNameExitsOne ==
    (/\ command \in {"create", "update", "delete", "cancel"}
     /\ ~positional
     /\ ~nameFlag
     /\ pc = "done"
     /\ exit # "uncaught") =>
        /\ stderr = <<StackNameRequired(command)>>
        /\ exit = "1"
        /\ Only(log, IsGuardedCall) = <<>>

\* A confirmation prompt was answered with something other than 'y'.
NegativeAnswer ==
    \E i \in DOMAIN answers : ToLowerCase(answers[i]) # "y"

\* C7, as claimed: after a negative answer to a confirmation prompt of
\* create or update the invocation ends without error, no cloud call of any
\* kind has been made and no temporary template file has been written.
C7_DeclineMakesNoCloudCall ==
    NegativeAnswer =>
        /\ pc = "done"
        /\ exit = "0"
        /\ Only(log, IsCloudCall) = <<>>
        /\ tmpFile = "none"

\* C7, amended: after a negative answer to a confirmation prompt of create
\* or update the invocation ends without error; no artifacts check, no
\* deployment notification, no stack operation has been called and no
\* temporary template file has been written; the one cloud call made is the
\* bucket provisioning, which precedes the prompts.
C7_DeclineStopsAfterBucket ==
    NegativeAnswer =>
        /\ command \in {"create", "update"}
        /\ pc = "done"
        /\ exit = "0"
        /\ Only(log, IsCloudCall) = <<"init.bucket">>
        /\ tmpFile = "none"

C7_Declined ==
    /\ NegativeAnswer
    /\ pc = "done"
    /\ uncommitted
    /\ Len(answers) = 2

\* C8, as claimed: when the artifacts check of create or update fails, the
\* failure is reported and the invocation stops; no stack operation is ever
\* called, and no bucket provisioning and no deployment notification has
\* been called.
C8_ArtifactsFailureBeforeAnyCloudCall ==
    artifactsResult = "failed" =>
        /\ pc = "done"
        /\ stderr = <<ArtifactsCheckFailed>>
        /\ Only(log, IsStackCall) = <<>>
        /\ Only(log, IsNotification) = <<>>
        /\ Only(log, IsCloudCall) = <<"artifacts">>

\* C8, amended: when the artifacts check of create or update fails, the
\* failure is reported and the invocation stops; no stack operation is ever
\* called and no deployment notification has been called.  In the async
\* main the bucket provisioning has been called before the check; in the
\* legacy script the temporary template file has been written before it.
C8_ArtifactsFailureStops ==
    artifactsResult = "failed" =>
        /\ command \in {"create", "update"}
        /\ pc = "done"
        /\ exit = "0"
        /\ stderr = <<ArtifactsCheckFailed>>
        /\ Only(log, IsStackCall) = <<>>
        /\ Only(log, IsNotification) = <<>>
        /\ opResult = "none"
        /\ Only(log, IsCloudCall)
             = IF Async THEN <<"init.bucket", "artifacts">> ELSE <<"artifacts">>
        /\ tmpFile = IF Async THEN "none" ELSE "written"

C8_ArtifactsFailed ==
    /\ artifactsResult = "failed"
    /\ pc = "done"
    /\ entry = "part_000"
    /\ github

\* C9: with the github flag set, an update that fails with execution
\* UNAVAILABLE and status FAILED sends exactly one final notification, a
\* success; any other failure of the update sends a failure notification;
\* no update sends both.
C9_UpdateFailureNotification ==
    /\ command = "update" => Len(Only(log, IsFinalNotification)) <= 1
    /\ (github /\ command = "update" /\ opResult = "failed" /\ pc = "done") =>
            Only(log, IsFinalNotification)
                = IF err.execution = "UNAVAILABLE" /\ err.status = "FAILED"
                  THEN <<Deployment("success")>>
                  ELSE <<Deployment("failure")>>

C9_UnavailableFailedUpdate ==
    /\ github
    /\ command = "update"
    /\ opResult = "failed"
    /\ pc = "done"
    /\ err.execution = "UNAVAILABLE"
    /\ err.status = "FAILED"
    /\ Only(log, IsFinalNotification) = <<Deployment("success")>>

\* C10: of an invocation that wrote the temporary template file: at the end
\* the file is deleted if the stack operation succeeded, and is still there
\* if a create or an update failed; it is never deleted before the stack
\* operation has returned.
C10_TemporaryFileFate ==
    /\ (pc = "done" /\ tmpFile # "none" /\ opResult = "ok") => tmpFile = "deleted"
    /\ (pc = "done" /\ command \in {"create", "update"} /\ opResult = "failed") =>
            tmpFile = "written"
    /\ tmpFile = "deleted" => opResult # "none"

C10_DeletedAfterSuccess ==
    /\ pc = "done"
    /\ opResult = "ok"
    /\ tmpFile = "deleted"
    /\ Only(log, IsStackCall) # <<>>

IsPreflight(c) == c \in {"Git.uncommitted", "Git.pushed", "inquirer.prompt", "artifacts"}

\* C11: cancel with a stack name calls the stack cancel; when it succeeds
\* and the github flag is set, a failure notification is sent after the
\* cancel returned; when it fails, 'Cancel failed' is reported and no
\* notification of either kind is sent.  Cancel never runs the git prompts
\* or the artifacts check.  (An invocation that a collaborator ended with an
\* uncaught exception before the cancel is left aside, and so is the legacy
\* script, which has no cancel subcommand.)
C11_CancelFlow ==
    (command = "cancel" /\ (positional \/ nameFlag) /\ entry # "legacy") =>
        /\ Only(log, IsPreflight) = <<>>
        /\ (pc = "done" /\ exit # "uncaught") =>
                Only(log, IsStackCall) = <<"cf.cancel">>
        /\ (pc = "done" /\ opResult = "ok" /\ github) =>
                /\ Only(log, IsNotification) = <<Deployment("failure")>>
                /\ SubSeq(log, Len(log) - 1, Len(log))
                       = <<"cf.cancel", Deployment("failure")>>
        /\ (pc = "done" /\ opResult = "failed") =>
                /\ <<"Cancel failed: ", "err.message">> \in {stderr[i] : i \in DOMAIN stderr}
                /\ Only(log, IsFinalNotification) = <<>>

(***************************************************************************)
(* A further claim about tagger (specification SpecTagger).                *)
(***************************************************************************)
\* C12: tagger(T, S) returns T unchanged (no Properties or Tags created, no
\* tag added or modified) whenever S is empty or absent, or T has no
\* Resources section.
C12_NoTagsOrNoResourcesIsNoOp ==
    (calls >= 1 /\ (tags.type = "undefined" \/ Len(tags.items) = 0
                        \/ ~Has(original, "Resources"))) =>
        template = original

\* tagger was called with an empty tag list on a template that has a
\* tag-capable resource without Properties.
C12_EmptyTagsOnTagCapable ==
    /\ calls >= 1
    /\ tags = JsArray(<<>>)
    /\ Has(original, "Resources")
    /\ \E n \in DOMAIN original.Resources :
            /\ TagCapable(original.Resources[n])
            /\ ~Has(original.Resources[n], "Properties")
    /\ template = original

(***************************************************************************)
(* A further claim about the invocation (specification Spec).              *)
(***************************************************************************)
\* C13: in one create invocation with the github flag set, at most one
\* final notification is sent and it matches the outcome of the stack
\* create call: the failure notification and the 'Create failed' report
\* occur only if the create call failed, never after one that succeeded.
C13_CreateNotificationMatchesOutcome ==
    (command = "create" /\ github) =>
        /\ Len(Only(log, IsFinalNotification)) <= 1
        /\ (opResult = "ok" =>
                /\ Deployment("failure") \notin {log[i] : i \in DOMAIN log}
                /\ Failed("create") \notin {stderr[i] : i \in DOMAIN stderr})
        /\ (opResult = "failed" =>
                Deployment("success") \notin {log[i] : i \in DOMAIN log})

====
